---- MODULE Spec2Model ----
(***************************************************************************)
(* The session orchestrator of src/static/js/main.js: the module state     *)
(* (lines 109-118), the connect / disconnect handlers, the handlers of the *)
(* transport's events, the audio playback path and the three producer      *)
(* toggles.  The browser's event loop is modelled as it schedules the      *)
(* code: a handler runs to its next await without interruption, a new task *)
(* (an event, a click, the settling of a pending promise) starts only when *)
(* no continuation is ready (mq is empty), and continuations released      *)
(* together run in the order in which they were suspended.                 *)
(*                                                                         *)
(* The transport (MultimodalLiveClient), the playback sink (AudioStreamer) *)
(* and the producers (AudioRecorder, VideoManager, ScreenRecorder) are     *)
(* imported by main.js and are modelled at the interface main.js uses.     *)
(***************************************************************************)
EXTENDS Integers, Sequences, FiniteSets, TLC

\* Bounds of the model.
MaxConnects == 2    \* client.connect calls in one run of the session
MaxProducerConnects == 1  \* client.connect calls in one run of the producers
MaxAudio == 2       \* audio events in one run
MaxStarts == 2      \* producer start attempts (all kinds) in one run
MaxParts == 3       \* parts of one modelTurn
MaxText == 3        \* characters in the message input

VARIABLES
    isRecording, audioStreamer, audioCtx, isConnected, audioRecorder,
    isVideoActive, videoManager, isScreenSharing, screenRecorder, isUsingTool,
    ui,          \* connectButton.textContent and the disabled flag of the five controls
    apiKey,      \* apiKeyInput.value
    client,      \* the transport: session open, connect promises pending, close event due
    nConnect,    \* client.connect calls made so far
    sinkQueue,   \* the playback sink's queue of not-yet-played payloads
    addLog,      \* the payloads handed to addPCM16, in call order
    nAudio,      \* audio events received so far; the n-th event carries payload n
    resumeQ,     \* continuations waiting for audioCtx.resume(), oldest first
    mq,          \* continuations ready to run, oldest first
    workletWait, \* the continuation waiting for audioStreamer.addWorklet
    nStart,      \* producer start attempts made so far
    startH,      \* each start attempt: its kind, its producer object, where it is suspended
    objKind,     \* each producer object: its kind
    objSt,       \* each producer object: none / starting / capturing / off
    objCur,      \* each producer object: the start call that is current on it
    last,        \* what the last handler step did: its name, its notifications, its sends
    stopMark,    \* the number of audio events received when the sink was last stopped
    messageText  \* messageInput.value

stateVars == <<isRecording, audioStreamer, audioCtx, isConnected, audioRecorder,
               isVideoActive, videoManager, isScreenSharing, screenRecorder, isUsingTool>>
prodVars == <<nStart, startH, objKind, objSt, objCur>>
vars == <<isRecording, audioStreamer, audioCtx, isConnected, audioRecorder,
          isVideoActive, videoManager, isScreenSharing, screenRecorder, isUsingTool,
          ui, apiKey, messageText, stopMark, client, nConnect, sinkQueue, addLog, nAudio, resumeQ, mq,
          workletWait, nStart, startH, objKind, objSt, objCur, last>>

----------------------------------------------------------------------------
\* Values

Null == 0
CtxStates == {"suspended", "running"}
NoWait == [kind |-> "none", id |-> 0]
NoStart == [kind |-> "none", obj |-> 0, pc |-> "none"]
StartIds == 1..MaxStarts

\* A text is a sequence of characters; a part carries a text, a functionCall,
\* a functionResponse, or nothing.
TextPart(t) == [text |-> t, fc |-> FALSE, fr |-> FALSE]
FunctionCallPart == [text |-> <<>>, fc |-> TRUE, fr |-> FALSE]
FunctionResponsePart == [text |-> <<>>, fc |-> FALSE, fr |-> TRUE]
PartKinds ==
    {TextPart(<<>>), TextPart(<<"A">>), TextPart(<<"B">>), FunctionCallPart,
     FunctionResponsePart}
RECURSIVE SeqsUpTo(_, _)
SeqsUpTo(S, n) ==
    IF n = 0 THEN {<<>>}
    ELSE LET shorter == SeqsUpTo(S, n - 1)
         IN  shorter \cup {Append(s, x) : s \in {t \in shorter : Len(t) = n - 1}, x \in S}
PartSeqs == SeqsUpTo(PartKinds, MaxParts)

\* The modelTurns of the session's runs: one of each class of content event.
TurnShapes ==
    {<<TextPart(<<"A">>)>>, <<FunctionCallPart>>, <<TextPart(<<"A">>), FunctionResponsePart>>,
     <<FunctionCallPart, FunctionResponsePart>>}

\* What a handler step is observed to do: the notifications it passes to
\* logMessage, the chunks it passes to client.sendRealtimeInput, the number of
\* errors that reached it, (for the interrupted handler) the flag and the
\* sink's queue length it found, (for the content handler) the parts of the
\* modelTurn it was given, (for a producer's callback) the chunk it was
\* given, and (for handleSendMessage) the value of the input it found and what
\* it passed to client.send.
NoPre == [tool |-> FALSE, queued |-> 0]
Pre == [tool |-> isUsingTool, queued |-> Len(sinkQueue)]
Obs(op, logs, sent, errs, pre) ==
    [op |-> op, logs |-> logs, sent |-> sent, errs |-> errs, pre |-> pre, rel |-> "none",
     parts |-> <<>>, chunk |-> "none", input |-> <<>>, msgs |-> <<>>]
\* The same for an event that bears on the flag, with its class.
FlagObs(op, logs, pre, rel) == [Obs(op, logs, <<>>, 0, pre) EXCEPT !.rel = rel]

\* No continuation is ready: the event loop takes the next task.
Idle == mq = <<>>

DisconnectedUI ==
    [connectText |-> "Connect", messageInput |-> TRUE, sendButton |-> TRUE,
     micButton |-> TRUE, cameraButton |-> TRUE, screenButton |-> TRUE]
ConnectedUI ==
    [connectText |-> "Disconnect", messageInput |-> FALSE, sendButton |-> FALSE,
     micButton |-> FALSE, cameraButton |-> FALSE, screenButton |-> FALSE]

----------------------------------------------------------------------------
\* Initial state: lines 109-118, 474-477, 538, 594

Init ==
    /\ isRecording = FALSE
    /\ audioStreamer = FALSE
    /\ audioCtx = "null"
    /\ isConnected = FALSE
    /\ audioRecorder = Null
    /\ isVideoActive = FALSE
    /\ videoManager = Null
    /\ isScreenSharing = FALSE
    /\ screenRecorder = Null
    /\ isUsingTool = FALSE
    /\ ui = DisconnectedUI
    /\ apiKey = ""
    /\ stopMark = 0
    /\ messageText = <<>>
    /\ client = [open |-> FALSE, pending |-> {}, abandoned |-> {}, closeDue |-> FALSE]
    /\ nConnect = 0
    /\ sinkQueue = <<>>
    /\ addLog = <<>>
    /\ nAudio = 0
    /\ resumeQ = <<>>
    /\ mq = <<>>
    /\ workletWait = NoWait
    /\ nStart = 0
    /\ startH = [s \in StartIds |-> NoStart]
    /\ objKind = [s \in StartIds |-> "none"]
    /\ objSt = [s \in StartIds |-> "none"]
    /\ objCur = [s \in StartIds |-> 0]
    /\ last = Obs("init", <<>>, <<>>, 0, NoPre)

----------------------------------------------------------------------------
\* Producer objects (AudioRecorder, VideoManager, ScreenRecorder): stop()

StopObj(st, o) == IF o = Null THEN st ELSE [st EXCEPT ![o] = "off"]

----------------------------------------------------------------------------
\* Connect and disconnect

connFrame == <<isRecording, audioStreamer, audioCtx, audioRecorder, isVideoActive,
               videoManager, isScreenSharing, screenRecorder, isUsingTool, apiKey, messageText, stopMark,
               sinkQueue, addLog, nAudio, workletWait, nStart, startH, objKind,
               objSt, objCur>>

\* The user edits the API key field.
TypeApiKey(k) ==
    /\ Idle
    /\ apiKey # k
    /\ apiKey' = k
    /\ last' = Obs("typeApiKey", <<>>, <<>>, 0, NoPre)
    /\ UNCHANGED <<stateVars, prodVars, ui, client, nConnect, sinkQueue, addLog,
                   nAudio, resumeQ, mq, workletWait, stopMark, messageText>>

\* connectToWebsocket without the check of the key at lines 281-284.
ConnectToWebsocket_NoKeyCheck ==
    /\ nConnect < MaxConnects
    /\ nConnect' = nConnect + 1
    /\ client' = [client EXCEPT !.pending = @ \cup {nConnect + 1}]
    /\ last' = Obs("connect", <<>>, <<>>, 0, NoPre)
    /\ UNCHANGED <<connFrame, isConnected, ui, resumeQ, mq>>

\* connectToWebsocket up to its first await: an empty key is refused, otherwise
\* client.connect is called and the handler is suspended on its promise.
ConnectToWebsocket ==
    /\ IF apiKey = ""
       THEN /\ last' = Obs("connectRefused", <<"Please input API Key">>, <<>>, 0, NoPre)
            /\ UNCHANGED <<client, nConnect>>
       ELSE /\ nConnect < MaxConnects
            /\ nConnect' = nConnect + 1
            /\ client' = [client EXCEPT !.pending = @ \cup {nConnect + 1}]
            /\ last' = Obs("connect", <<>>, <<>>, 0, NoPre)
    /\ UNCHANGED <<connFrame, isConnected, ui, resumeQ, mq>>

\* connectToWebsocket after `await resumeAudioContext()`: lines 317-324.
ConnectFinish ==
    /\ ui' = ConnectedUI
    /\ last' = Obs("connected", <<"Connected to Gemini Multimodal Live API">>, <<>>, 0, NoPre)

\* client.connect resolves: isConnected is set, then resumeAudioContext is
\* awaited: a suspended audio context suspends the handler again.
ConnectResolve(a) ==
    /\ Idle
    /\ a \in client.pending
    /\ client' = [client EXCEPT !.open = TRUE, !.pending = @ \ {a}]
    /\ isConnected' = TRUE
    /\ IF audioCtx = "suspended"
       THEN /\ resumeQ' = Append(resumeQ, [kind |-> "connect", id |-> a])
            /\ last' = Obs("connectResolved", <<>>, <<>>, 0, NoPre)
            /\ UNCHANGED ui
       ELSE /\ ConnectFinish
            /\ UNCHANGED resumeQ
    /\ UNCHANGED <<connFrame, nConnect, mq>>

\* The catch block without its reset of isConnected at line 329.
ConnectCatch_KeepsConnected ==
    /\ isConnected' = isConnected
    /\ ui' = DisconnectedUI
    /\ last' = Obs("connectRejected", <<"Connection error">>, <<>>, 1, NoPre)

\* The catch block of connectToWebsocket: lines 325-337.
ConnectCatch ==
    /\ isConnected' = FALSE
    /\ ui' = DisconnectedUI
    /\ last' = Obs("connectRejected", <<"Connection error">>, <<>>, 1, NoPre)

\* client.connect rejects; a connect abandoned by disconnect can only reject.
ConnectReject(a) ==
    /\ Idle
    /\ a \in client.pending \cup client.abandoned
    /\ client' = [client EXCEPT !.pending = @ \ {a}, !.abandoned = @ \ {a}]
    /\ ConnectCatch
    /\ UNCHANGED <<connFrame, nConnect, resumeQ, mq>>

\* disconnectFromWebsocket, with the stopVideo and stopScreenSharing it calls.
DisconnectFromWebsocket ==
    /\ client' = [client EXCEPT !.open = FALSE, !.pending = {},
                                !.abandoned = @ \cup client.pending,
                                !.closeDue = @ \/ client.open]
    /\ isConnected' = FALSE
    /\ IF audioStreamer
       THEN /\ sinkQueue' = <<>> /\ audioRecorder' = Null /\ isRecording' = FALSE
            /\ stopMark' = nAudio
       ELSE UNCHANGED <<sinkQueue, audioRecorder, isRecording, stopMark>>
    /\ objSt' = StopObj(StopObj(StopObj(objSt, IF audioStreamer THEN audioRecorder ELSE Null),
                                videoManager), screenRecorder)
    /\ ui' = DisconnectedUI
    /\ IF videoManager # Null
       THEN videoManager' = Null /\ isVideoActive' = FALSE
       ELSE UNCHANGED <<videoManager, isVideoActive>>
    /\ IF screenRecorder # Null
       THEN screenRecorder' = Null /\ isScreenSharing' = FALSE
       ELSE UNCHANGED <<screenRecorder, isScreenSharing>>
    /\ last' = Obs("disconnect",
                   <<"Disconnected from server">>
                     \o (IF videoManager # Null THEN <<"Camera stopped">> ELSE <<>>)
                     \o (IF screenRecorder # Null THEN <<"Screen sharing stopped">> ELSE <<>>),
                   <<>>, 0, NoPre)
    /\ UNCHANGED <<audioStreamer, audioCtx, isUsingTool, apiKey, messageText, nConnect, addLog, nAudio,
                   resumeQ, mq, workletWait, nStart, startH, objKind, objCur>>

\* The connect button's click handler: lines 466-472.
ConnectClick ==
    /\ Idle
    /\ IF isConnected THEN DisconnectFromWebsocket ELSE ConnectToWebsocket

----------------------------------------------------------------------------
\* Handlers of the transport's events: lines 386-455

HasFunctionCall(parts) == \E i \in 1..Len(parts) : parts[i].fc
HasFunctionResponse(parts) == \E i \in 1..Len(parts) : parts[i].fr

\* The flag after a content event: lines 410-416.
ContentFlag(parts, flag) ==
    IF HasFunctionCall(parts) THEN TRUE
    ELSE IF HasFunctionResponse(parts) THEN FALSE
    ELSE flag

\* A join that keeps the text of the first part only.
JoinText_FirstOnly(parts) == IF parts = <<>> THEN <<>> ELSE Head(parts).text

\* parts.map(part => part.text).join(''): a part without text joins as the
\* empty string.
RECURSIVE JoinText(_)
JoinText(parts) ==
    IF parts = <<>> THEN <<>> ELSE Head(parts).text \o JoinText(Tail(parts))

\* The class of a content event among the events that bear on the flag: it
\* carries a functionCall part ("call"), a functionResponse part ("clear"),
\* both, or neither ("none": the event does not bear on the flag).
Relevant(parts) ==
    IF HasFunctionCall(parts) /\ HasFunctionResponse(parts) THEN "callAndClear"
    ELSE IF HasFunctionCall(parts) THEN "call"
    ELSE IF HasFunctionResponse(parts) THEN "clear"
    ELSE "none"

evFrame == <<isRecording, audioStreamer, audioCtx, isConnected, audioRecorder,
             isVideoActive, videoManager, isScreenSharing, screenRecorder,
             ui, apiKey, messageText, nConnect, addLog, nAudio, resumeQ, mq, workletWait,
             nStart, startH, objKind, objSt, objCur>>

\* client.on('content'): lines 408-423.
OnContent(hasTurn, parts) ==
    /\ Idle
    /\ client.open
    /\ IF hasTurn
       THEN /\ isUsingTool' = ContentFlag(parts, isUsingTool)
            /\ last' = [FlagObs("content",
                                IF JoinText(parts) # <<>> THEN <<JoinText(parts)>> ELSE <<>>,
                                NoPre, Relevant(parts)) EXCEPT !.parts = parts]
       ELSE /\ UNCHANGED isUsingTool
            /\ last' = Obs("content", <<>>, <<>>, 0, NoPre)
    /\ UNCHANGED <<evFrame, client, sinkQueue, stopMark>>

\* The interrupted handler without its audioStreamer?.stop().
OnInterrupted_NoStop ==
    /\ Idle
    /\ client.open
    /\ isUsingTool' = FALSE
    /\ last' = FlagObs("interrupted", <<"Model interrupted">>, Pre, "clear")
    /\ UNCHANGED <<evFrame, client, sinkQueue, stopMark>>

\* client.on('interrupted'): lines 425-430.
OnInterrupted ==
    /\ Idle
    /\ client.open
    /\ sinkQueue' = (IF audioStreamer THEN <<>> ELSE sinkQueue)
    /\ stopMark' = (IF audioStreamer THEN nAudio ELSE stopMark)
    /\ isUsingTool' = FALSE
    /\ last' = FlagObs("interrupted", <<"Model interrupted">>, Pre, "clear")
    /\ UNCHANGED <<evFrame, client>>

\* client.on('turncomplete'): lines 436-439.
OnTurnComplete ==
    /\ Idle
    /\ client.open
    /\ isUsingTool' = FALSE
    /\ last' = FlagObs("turncomplete", <<"Turn complete">>, NoPre, "clear")
    /\ UNCHANGED <<evFrame, client, sinkQueue, stopMark>>

\* An error handler that takes the error as fatal and marks the session
\* not connected.
OnError_Fatal ==
    /\ Idle
    /\ client.open
    /\ isConnected' = FALSE
    /\ last' = Obs("error", <<>>, <<>>, 1, NoPre)
    /\ UNCHANGED <<isRecording, audioStreamer, audioCtx, audioRecorder, isVideoActive,
                   videoManager, isScreenSharing, screenRecorder, ui, apiKey, messageText, stopMark, nConnect,
                   addLog, nAudio, resumeQ, mq, workletWait, nStart, startH, objKind,
                   objSt, objCur, client, sinkQueue, isUsingTool>>

\* main.js imports no ApplicationError (lines 16-23), so the handler's
\* `error instanceof ApplicationError` throws a ReferenceError.
ApplicationErrorImported == FALSE

\* client.on('error'): lines 441-448.  The throw at line 442 ends the handler
\* before it reaches logMessage at line 447.
OnError ==
    /\ Idle
    /\ client.open
    /\ last' = Obs("error",
                   IF ApplicationErrorImported THEN <<"Error">> ELSE <<>>,
                   <<>>, 1, NoPre)
    /\ UNCHANGED <<evFrame, client, sinkQueue, isUsingTool, stopMark>>

\* client.on('message'): lines 450-455.
OnMessage(hasError) ==
    /\ Idle
    /\ client.open
    /\ last' = Obs("message",
                   IF hasError THEN <<"Server error">> ELSE <<>>,
                   <<>>, IF hasError THEN 1 ELSE 0, NoPre)
    /\ UNCHANGED <<evFrame, client, sinkQueue, isUsingTool, stopMark>>

\* client.on('open'), client.on('log'), client.on('setupcomplete'): lines
\* 386-392 and 432-434, which only log.
OnInfo(ev) ==
    /\ Idle
    /\ client.open
    /\ last' = Obs(ev, <<ev>>, <<>>, 0, NoPre)
    /\ UNCHANGED <<evFrame, client, sinkQueue, isUsingTool, stopMark>>

\* client.on('close'): lines 394-396.  The transport raises it when the remote
\* end or a fault closes the session, and after a disconnect.
OnClose ==
    /\ Idle
    /\ client.open \/ client.closeDue
    /\ client' = [client EXCEPT !.open = FALSE, !.closeDue = FALSE]
    /\ last' = Obs("close", <<"WebSocket connection closed">>, <<>>, 0, NoPre)
    /\ UNCHANGED <<evFrame, sinkQueue, isUsingTool, stopMark>>

----------------------------------------------------------------------------
\* Audio playback: lines 194-205, 270-274, 398-406

\* streamer.addPCM16(data): the sink appends the payload to its queue.
AddPCM16(id) ==
    /\ sinkQueue' = Append(sinkQueue, id)
    /\ addLog' = Append(addLog, id)

\* audioRecorder = new AudioRecorder() and the call of its start: lines 215-221.
MicAfterInit(s) ==
    /\ audioRecorder' = s
    /\ objKind' = [objKind EXCEPT ![s] = "mic"]
    /\ objSt' = [objSt EXCEPT ![s] = "starting"]
    /\ objCur' = [objCur EXCEPT ![s] = s]
    /\ startH' = [startH EXCEPT ![s] = [kind |-> "mic", obj |-> s, pc |-> "start"]]

\* The catch block of handleMicToggle: lines 249-254.
MicCatch(s) ==
    /\ isRecording' = FALSE
    /\ last' = Obs("micFailed", <<"Error">>, <<>>, 1, NoPre)

\* The audio handler after `await resumeAudioContext()`: ensureAudioInitialized
\* creates the context and the streamer when there is none and then waits for
\* the worklet; with a streamer present the payload is added at once.  c is the
\* state in which a new AudioContext starts.
AudioAfterResume(id, c) ==
    /\ audioCtx' = (IF audioCtx = "null" THEN c ELSE audioCtx)
    /\ IF ~audioStreamer
       THEN /\ audioStreamer' = TRUE
            /\ workletWait' = [kind |-> "audio", id |-> id]
            /\ last' = Obs("audio", <<>>, <<>>, 0, NoPre)
            /\ UNCHANGED <<sinkQueue, addLog>>
       ELSE /\ AddPCM16(id)
            /\ last' = Obs("audioAdded", <<>>, <<>>, 0, NoPre)
            /\ UNCHANGED <<audioStreamer, workletWait>>

audioFrame == <<isRecording, isConnected, audioRecorder, isVideoActive, videoManager,
                isScreenSharing, screenRecorder, isUsingTool, ui, apiKey, messageText, stopMark, client,
                nConnect, nStart, startH, objKind, objSt, objCur>>

\* client.on('audio') up to its first await: resumeAudioContext suspends the
\* handler when the context is suspended.
OnAudio ==
    /\ Idle
    /\ client.open
    /\ nAudio < MaxAudio
    /\ nAudio' = nAudio + 1
    /\ IF audioCtx = "suspended"
       THEN /\ resumeQ' = Append(resumeQ, [kind |-> "audio", id |-> nAudio + 1])
            /\ last' = Obs("audio", <<>>, <<>>, 0, NoPre)
            /\ UNCHANGED <<audioCtx, audioStreamer, workletWait, sinkQueue, addLog>>
       ELSE /\ \E c \in CtxStates : AudioAfterResume(nAudio + 1, c)
            /\ UNCHANGED resumeQ
    /\ UNCHANGED <<audioFrame, mq>>

\* The audio context starts running: every pending audioCtx.resume() resolves,
\* and the continuations become ready in the order of their calls.
CtxRunning ==
    /\ Idle
    /\ audioCtx = "suspended"
    /\ audioCtx' = "running"
    /\ mq' = resumeQ
    /\ resumeQ' = <<>>
    /\ last' = Obs("ctxRunning", <<>>, <<>>, 0, NoPre)
    /\ UNCHANGED <<audioFrame, audioStreamer, workletWait, sinkQueue, addLog, nAudio>>

\* The oldest ready continuation runs: an audio handler or connectToWebsocket,
\* each after its `await resumeAudioContext()`.
RunContinuation ==
    /\ mq # <<>>
    /\ mq' = Tail(mq)
    /\ IF Head(mq).kind = "audio"
       THEN /\ \E c \in CtxStates : AudioAfterResume(Head(mq).id, c)
            /\ UNCHANGED ui
       ELSE /\ ConnectFinish
            /\ UNCHANGED <<audioCtx, audioStreamer, workletWait, sinkQueue, addLog>>
    /\ UNCHANGED <<isRecording, isConnected, audioRecorder, isVideoActive, videoManager,
                   isScreenSharing, screenRecorder, isUsingTool, apiKey, messageText, stopMark, client,
                   nConnect, nStart, startH, objKind, objSt, objCur,
                   nAudio, resumeQ>>

\* audioStreamer.addWorklet resolves: the handler waiting in
\* ensureAudioInitialized goes on (line 402, or line 215).
WorkletResolve ==
    /\ Idle
    /\ workletWait.kind # "none"
    /\ workletWait' = NoWait
    /\ IF workletWait.kind = "audio"
       THEN /\ AddPCM16(workletWait.id)
            /\ last' = Obs("audioAdded", <<>>, <<>>, 0, NoPre)
            /\ UNCHANGED <<audioRecorder, objKind, objSt, objCur, startH>>
       ELSE /\ MicAfterInit(workletWait.id)
            /\ last' = Obs("micInit", <<>>, <<>>, 0, NoPre)
            /\ UNCHANGED <<sinkQueue, addLog>>
    /\ UNCHANGED <<isRecording, audioStreamer, audioCtx, isConnected, isVideoActive,
                   videoManager, isScreenSharing, screenRecorder, isUsingTool, ui, apiKey, messageText, stopMark,
                   client, nConnect, nAudio, resumeQ, mq, nStart>>

\* audioStreamer.addWorklet rejects: the catch block of the waiting handler
\* runs (lines 403-405, or 249-254).
WorkletReject ==
    /\ Idle
    /\ workletWait.kind # "none"
    /\ workletWait' = NoWait
    /\ IF workletWait.kind = "audio"
       THEN /\ last' = Obs("audioFailed", <<"Error processing audio">>, <<>>, 1, NoPre)
            /\ UNCHANGED <<isRecording, startH>>
       ELSE /\ MicCatch(workletWait.id)
            /\ startH' = [startH EXCEPT ![workletWait.id] = NoStart]
    /\ UNCHANGED <<audioStreamer, audioCtx, isConnected, audioRecorder, isVideoActive,
                   videoManager, isScreenSharing, screenRecorder, isUsingTool, ui, apiKey, messageText, stopMark,
                   client, nConnect, sinkQueue, addLog, nAudio, resumeQ, mq, nStart,
                   objKind, objSt, objCur>>

\* The sink plays the payload at the head of its queue.
SinkPlay ==
    /\ Idle
    /\ sinkQueue # <<>>
    /\ sinkQueue' = Tail(sinkQueue)
    /\ last' = Obs("play", <<>>, <<>>, 0, NoPre)
    /\ UNCHANGED <<stateVars, prodVars, ui, apiKey, messageText, stopMark, client, nConnect, addLog, nAudio,
                   resumeQ, mq, workletWait>>

----------------------------------------------------------------------------
\* Producers: lines 211-264, 483-533, 544-591

prodFrame == <<audioStreamer, audioCtx, isConnected, isUsingTool, ui, apiKey, messageText, stopMark, client,
               nConnect, sinkQueue, addLog, nAudio, resumeQ, mq>>

\* handleMicToggle up to its first await, or its stop branch.  The start
\* branch runs ensureAudioInitialized inside the click, where a new
\* AudioContext is allowed to start: it is created running.
MicClick ==
    /\ Idle
    /\ ~ui.micButton
    /\ IF ~isRecording
       THEN /\ nStart < MaxStarts
            /\ nStart' = nStart + 1
            /\ audioCtx' = (IF audioCtx = "null" THEN "running" ELSE audioCtx)
            /\ IF ~audioStreamer
               THEN /\ audioStreamer' = TRUE
                    /\ workletWait' = [kind |-> "mic", id |-> nStart + 1]
                    /\ startH' = [startH EXCEPT ![nStart + 1] =
                                     [kind |-> "mic", obj |-> Null, pc |-> "worklet"]]
                    /\ UNCHANGED <<audioRecorder, objKind, objSt, objCur>>
               ELSE /\ MicAfterInit(nStart + 1)
                    /\ UNCHANGED <<audioStreamer, workletWait>>
            /\ last' = Obs("micStart", <<>>, <<>>, 0, NoPre)
            /\ UNCHANGED isRecording
       ELSE /\ objSt' = StopObj(objSt, audioRecorder)
            /\ isRecording' = FALSE
            /\ last' = Obs("micStop", <<"Microphone stopped">>, <<>>, 0, NoPre)
            /\ UNCHANGED <<audioStreamer, audioCtx, workletWait, audioRecorder, nStart,
                           startH, objKind, objCur>>
    /\ UNCHANGED <<isConnected, isVideoActive, videoManager, isScreenSharing,
                   screenRecorder, isUsingTool, ui, apiKey, messageText, stopMark, client, nConnect,
                   sinkQueue, addLog, nAudio, resumeQ, mq>>

\* stopVideo: lines 524-533.
StopVideo ==
    /\ objSt' = StopObj(objSt, videoManager)
    /\ videoManager' = Null
    /\ isVideoActive' = FALSE
    /\ last' = Obs("cameraStop", <<"Camera stopped">>, <<>>, 0, NoPre)
    /\ UNCHANGED <<nStart, startH, objKind, objCur>>

\* handleVideoToggle up to its await, or its stop branch.  A start on the
\* manager at hand replaces the manager's capture.
CameraClick ==
    /\ Idle
    /\ ~ui.cameraButton
    /\ IF ~isVideoActive
       THEN LET s == nStart + 1
                m == IF videoManager = Null THEN s ELSE videoManager
            IN  /\ nStart < MaxStarts
                /\ nStart' = s
                /\ videoManager' = m
                /\ objKind' = [objKind EXCEPT ![m] = "camera"]
                /\ objSt' = [objSt EXCEPT ![m] = "starting"]
                /\ objCur' = [objCur EXCEPT ![m] = s]
                /\ startH' = [startH EXCEPT ![s] = [kind |-> "camera", obj |-> m, pc |-> "start"]]
                /\ last' = Obs("cameraStart", <<>>, <<>>, 0, NoPre)
                /\ UNCHANGED isVideoActive
       ELSE StopVideo
    /\ UNCHANGED <<prodFrame, isRecording, audioRecorder, isScreenSharing, screenRecorder,
                   workletWait>>

\* The stop-video button: line 536.
StopVideoClick ==
    /\ Idle
    /\ StopVideo
    /\ UNCHANGED <<prodFrame, isRecording, audioRecorder, isScreenSharing, screenRecorder,
                   workletWait>>

\* stopScreenSharing: lines 581-591.
StopScreenSharing ==
    /\ objSt' = StopObj(objSt, screenRecorder)
    /\ screenRecorder' = Null
    /\ isScreenSharing' = FALSE
    /\ last' = Obs("screenStop", <<"Screen sharing stopped">>, <<>>, 0, NoPre)
    /\ UNCHANGED <<nStart, startH, objKind, objCur>>

\* handleScreenShare up to its await, or its stop branch.
ScreenClick ==
    /\ Idle
    /\ ~ui.screenButton
    /\ IF ~isScreenSharing
       THEN LET s == nStart + 1
            IN  /\ nStart < MaxStarts
                /\ nStart' = s
                /\ screenRecorder' = s
                /\ objKind' = [objKind EXCEPT ![s] = "screen"]
                /\ objSt' = [objSt EXCEPT ![s] = "starting"]
                /\ objCur' = [objCur EXCEPT ![s] = s]
                /\ startH' = [startH EXCEPT ![s] = [kind |-> "screen", obj |-> s, pc |-> "start"]]
                /\ last' = Obs("screenStart", <<>>, <<>>, 0, NoPre)
                /\ UNCHANGED isScreenSharing
       ELSE StopScreenSharing
    /\ UNCHANGED <<prodFrame, isRecording, audioRecorder, isVideoActive, videoManager,
                   workletWait>>

\* The producer object after the start call s on it settles: a start that is
\* still current and was not stopped begins to capture, or fails.
Settled(s, ok) ==
    LET o == startH[s].obj
    IN  IF objSt[o] = "starting" /\ objCur[o] = s
        THEN [objSt EXCEPT ![o] = IF ok THEN "capturing" ELSE "off"]
        ELSE objSt

\* A producer's start resolves: the toggle handler goes on after its await
\* (lines 240, 501-505, 559-563).
StartResolve(s) ==
    /\ Idle
    /\ startH[s].pc = "start"
    /\ objSt' = Settled(s, TRUE)
    /\ IF startH[s].kind = "mic"
       THEN /\ startH' = [startH EXCEPT ![s].pc = "acquire"]
            /\ last' = Obs("micRecorderStarted", <<>>, <<>>, 0, NoPre)
            /\ UNCHANGED <<isVideoActive, isScreenSharing>>
       ELSE IF startH[s].kind = "camera"
       THEN /\ startH' = [startH EXCEPT ![s] = NoStart]
            /\ isVideoActive' = TRUE
            /\ last' = Obs("cameraStarted", <<"Camera started">>, <<>>, 0, NoPre)
            /\ UNCHANGED isScreenSharing
       ELSE /\ startH' = [startH EXCEPT ![s] = NoStart]
            /\ isScreenSharing' = TRUE
            /\ last' = Obs("screenStarted", <<"Screen sharing started">>, <<>>, 0, NoPre)
            /\ UNCHANGED isVideoActive
    /\ UNCHANGED <<prodFrame, isRecording, audioRecorder, videoManager, screenRecorder,
                   workletWait, nStart, objKind, objCur>>

\* A producer's start rejects: the catch block of the toggle handler runs
\* (lines 249-254, 507-514, 565-572).
StartReject(s) ==
    /\ Idle
    /\ startH[s].pc = "start"
    /\ objSt' = Settled(s, FALSE)
    /\ startH' = [startH EXCEPT ![s] = NoStart]
    /\ IF startH[s].kind = "mic"
       THEN /\ MicCatch(s)
            /\ UNCHANGED <<isVideoActive, videoManager, isScreenSharing>>
       ELSE IF startH[s].kind = "camera"
       THEN /\ isVideoActive' = FALSE
            /\ videoManager' = Null
            /\ last' = Obs("cameraFailed", <<"Error">>, <<>>, 1, NoPre)
            /\ UNCHANGED <<isRecording, isScreenSharing>>
       ELSE /\ isScreenSharing' = FALSE
            /\ last' = Obs("screenFailed", <<"Error">>, <<>>, 1, NoPre)
            /\ UNCHANGED <<isRecording, isVideoActive, videoManager>>
    /\ UNCHANGED <<prodFrame, audioRecorder, screenRecorder, workletWait, nStart,
                   objKind, objCur>>

\* handleMicToggle after its awaits of getUserMedia and audioStreamer.resume
\* (lines 240-244, with no assignment between the two): lines 245-248.
MicAcquired(s) ==
    /\ Idle
    /\ startH[s].pc = "acquire"
    /\ startH' = [startH EXCEPT ![s] = NoStart]
    /\ isRecording' = TRUE
    /\ last' = Obs("micStarted", <<"Microphone started">>, <<>>, 0, NoPre)
    /\ UNCHANGED <<prodFrame, audioRecorder, isVideoActive, videoManager, isScreenSharing,
                   screenRecorder, workletWait, nStart, objKind, objSt, objCur>>

\* getUserMedia or audioStreamer.resume rejects: the catch block runs.
MicAcquireFailed(s) ==
    /\ Idle
    /\ startH[s].pc = "acquire"
    /\ startH' = [startH EXCEPT ![s] = NoStart]
    /\ MicCatch(s)
    /\ UNCHANGED <<prodFrame, audioRecorder, isVideoActive, videoManager, isScreenSharing,
                   screenRecorder, workletWait, nStart, objKind, objSt, objCur>>

----------------------------------------------------------------------------
\* The producers' chunk callbacks: lines 221-238, 495-499, 550-557

\* The microphone callback without its test of isUsingTool.
MicChunkSent_NeverInterrupt(tool) ==
    <<[mimeType |-> "audio/pcm;rate=16000", data |-> "chunk"]>>

\* What the microphone callback passes to client.sendRealtimeInput.
MicChunkSent(tool) ==
    IF tool
    THEN <<[mimeType |-> "audio/pcm;rate=16000", data |-> "chunk", interrupt |-> TRUE]>>
    ELSE <<[mimeType |-> "audio/pcm;rate=16000", data |-> "chunk"]>>

\* Callbacks of the camera and the screen that pass nothing on.
FrameSent_Dropped(connected) == <<>>

\* What the camera's and the screen's callbacks pass to it.
FrameSent(connected) ==
    IF connected THEN <<[mimeType |-> "image/jpeg", data |-> "frame"]>> ELSE <<>>

\* The payloads of the producers' chunks.
ChunkData == {"c1", "c2"}

\* The chunks of sent, carrying the callback's payload d.
WithData(sent, d) == [i \in DOMAIN sent |-> [sent[i] EXCEPT !.data = d]]

\* A capturing producer object invokes its callback with one chunk.
ProducerChunk(o) ==
    /\ Idle
    /\ objSt[o] = "capturing"
    /\ \E d \in ChunkData :
          last' = [Obs(objKind[o] \o "Chunk", <<>>,
                       WithData(IF objKind[o] = "mic" THEN MicChunkSent(isUsingTool)
                                                      ELSE FrameSent(isConnected), d),
                       0, NoPre) EXCEPT !.chunk = d]
    /\ UNCHANGED <<stateVars, prodVars, ui, apiKey, messageText, stopMark, client, nConnect, sinkQueue, addLog,
                   nAudio, resumeQ, mq, workletWait>>

----------------------------------------------------------------------------
\* Text messages: lines 376-383, 457-462

\* The values of the message input: " " stands for a whitespace character,
\* "a" for any other.
Chars == {" ", "a"}
Texts == SeqsUpTo(Chars, MaxText)

\* String.prototype.trim: the text without its leading and its trailing
\* whitespace.
RECURSIVE TrimStart(_)
TrimStart(t) == IF t # <<>> /\ Head(t) = " " THEN TrimStart(Tail(t)) ELSE t
RECURSIVE TrimEnd(_)
TrimEnd(t) ==
    IF t # <<>> /\ t[Len(t)] = " " THEN TrimEnd(SubSeq(t, 1, Len(t) - 1)) ELSE t
Trim(t) == TrimEnd(TrimStart(t))

msgFrame == <<stateVars, prodVars, ui, apiKey, stopMark, client, nConnect, sinkQueue,
              addLog, nAudio, resumeQ, mq, workletWait>>

\* The user edits the message input, which is enabled.
TypeMessage(t) ==
    /\ Idle
    /\ ~ui.messageInput
    /\ messageText # t
    /\ messageText' = t
    /\ last' = Obs("typeMessage", <<>>, <<>>, 0, NoPre)
    /\ UNCHANGED msgFrame

\* handleSendMessage without its reset of the input at line 381.
HandleSendMessage_KeepsInput(op) ==
    LET message == Trim(messageText)
    IN  /\ last' = [Obs(op, IF message # <<>> THEN <<message>> ELSE <<>>, <<>>, 0, NoPre)
                       EXCEPT !.input = messageText,
                              !.msgs = IF message # <<>> THEN <<[text |-> message]>>
                                       ELSE <<>>]
        /\ UNCHANGED messageText

\* handleSendMessage: lines 376-383.
HandleSendMessage(op) ==
    LET message == Trim(messageText)
    IN  IF message # <<>>
        THEN /\ last' = [Obs(op, <<message>>, <<>>, 0, NoPre)
                            EXCEPT !.input = messageText, !.msgs = <<[text |-> message]>>]
             /\ messageText' = <<>>
        ELSE /\ last' = [Obs(op, <<>>, <<>>, 0, NoPre) EXCEPT !.input = messageText]
             /\ UNCHANGED messageText

\* The send button's click handler: line 457.
SendClick ==
    /\ Idle
    /\ ~ui.sendButton
    /\ HandleSendMessage("sendClick")
    /\ UNCHANGED msgFrame

\* The input's keypress handler on Enter: lines 458-462.
EnterKey ==
    /\ Idle
    /\ ~ui.messageInput
    /\ HandleSendMessage("sendKey")
    /\ UNCHANGED msgFrame

----------------------------------------------------------------------------
\* The specifications.  SpecSession runs the session: connect and disconnect,
\* the transport's events and the audio playback path.  SpecProducers runs the
\* producers over one session: connect and disconnect, the events that write
\* isUsingTool, the error and message events, the three toggles and the chunk
\* callbacks.  SpecContent runs
\* the content handler over every modelTurn of up to MaxParts parts.  The three
\* share the handlers of the session; the playback path touches no producer
\* state and the producers touch neither the sink nor the connection state.

SessionStep ==
    \/ \E k \in {"", "key"} : TypeApiKey(k)
    \/ ConnectClick
    \/ \E a \in 1..MaxConnects : ConnectResolve(a)
    \/ \E a \in 1..MaxConnects : ConnectReject(a)
    \/ \E parts \in TurnShapes : OnContent(TRUE, parts)
    \/ OnContent(FALSE, <<>>)
    \/ OnInterrupted
    \/ OnTurnComplete
    \/ OnError
    \/ \E hasError \in BOOLEAN : OnMessage(hasError)
    \/ \E ev \in {"open", "log", "setupcomplete"} : OnInfo(ev)
    \/ OnClose
    \/ OnAudio
    \/ CtxRunning
    \/ RunContinuation
    \/ WorkletResolve
    \/ WorkletReject
    \/ SinkPlay

ProducerStep ==
    \/ TypeApiKey("key")
    \/ (isConnected \/ nConnect < MaxProducerConnects) /\ ConnectClick
    \/ \E a \in 1..MaxProducerConnects : ConnectResolve(a)
    \/ \E a \in 1..MaxProducerConnects : ConnectReject(a)
    \/ OnContent(TRUE, <<FunctionCallPart>>)
    \/ OnTurnComplete
    \/ OnError
    \/ OnMessage(TRUE)
    \/ OnClose
    \/ WorkletResolve
    \/ WorkletReject
    \/ MicClick
    \/ CameraClick
    \/ StopVideoClick
    \/ ScreenClick
    \/ \E s \in StartIds : StartResolve(s)
    \/ \E s \in StartIds : StartReject(s)
    \/ \E s \in StartIds : MicAcquired(s)
    \/ \E s \in StartIds : MicAcquireFailed(s)
    \/ \E o \in StartIds : ProducerChunk(o)

ContentStep ==
    \/ TypeApiKey("key")
    \/ (isConnected \/ nConnect < MaxProducerConnects) /\ ConnectClick
    \/ \E a \in 1..MaxProducerConnects : ConnectResolve(a)
    \/ \E a \in 1..MaxProducerConnects : ConnectReject(a)
    \/ \E parts \in PartSeqs : OnContent(TRUE, parts)
    \/ OnContent(FALSE, <<>>)
    \/ OnInterrupted
    \/ OnTurnComplete
    \/ OnClose

SpecSession == Init /\ [][SessionStep]_vars
SpecProducers == Init /\ [][ProducerStep]_vars
SpecContent == Init /\ [][ContentStep]_vars

\* SpecMessages runs the message input over one session: connect and
\* disconnect, the close event, typing, the send button and the Enter key.
MessageStep ==
    \/ TypeApiKey("key")
    \/ (isConnected \/ nConnect < MaxProducerConnects) /\ ConnectClick
    \/ \E a \in 1..MaxProducerConnects : ConnectResolve(a)
    \/ \E a \in 1..MaxProducerConnects : ConnectReject(a)
    \/ OnClose
    \/ \E t \in Texts : TypeMessage(t)
    \/ SendClick
    \/ EnterKey

SpecMessages == Init /\ [][MessageStep]_vars

----------------------------------------------------------------------------
\* The claims

ClearingClasses == {"clear", "callAndClear"}

\* C1: isUsingTool is false initially, true after a content event with a
\* functionCall part, false after each of the three clearing events (a content
\* event with a functionResponse part, interrupted, turncomplete), and left
\* alone by every other step: it tells whether the most recent of these events
\* was a functionCall content without a later clearing event.
C1_FlagFollowsLastRelevantEvent ==
    /\ ~isUsingTool
    /\ [][/\ last'.rel = "call" => isUsingTool'
          /\ last'.rel \in ClearingClasses => ~isUsingTool'
          /\ last'.rel = "none" => isUsingTool' = isUsingTool]_vars

\* C2: after a content event whose parts contain a functionResponse part the
\* flag is false, whatever else the event carries.
C2_ResponseClearsFlag ==
    (last.op = "content" /\ last.rel \in ClearingClasses) => ~isUsingTool

\* C3: the payloads reach addPCM16 in the order of their audio events.
C3_AudioInReceiptOrder ==
    \A i, j \in 1..Len(addLog) : i < j => addLog[i] < addLog[j]

\* C4: after the interrupted handler the sink's queue is empty and the flag is
\* false.
C4_InterruptedStopsAndClears ==
    last.op = "interrupted" => sinkQueue = <<>> /\ ~isUsingTool
\* An interrupted event handled in a connected session that found the flag set
\* and payloads queued.
C4_Witness ==
    /\ last.op = "interrupted"
    /\ isConnected
    /\ last.pre.tool
    /\ last.pre.queued > 0

\* C5: no two client.connect calls are pending together, and none is pending
\* while a session is open.
C5_OneConnectAtATime ==
    /\ Cardinality(client.pending) <= 1
    /\ client.open => client.pending = {}

\* C6: of each producer kind at most one object captures at any time.
C6_OneProducerPerKind ==
    \A k \in {"mic", "camera", "screen"} :
        Cardinality({o \in StartIds : objKind[o] = k /\ objSt[o] = "capturing"}) <= 1

\* C7: connectToWebsocket run with an empty key calls no client.connect, leaves
\* isConnected false and every control as it was, and notifies the user.
C7_EmptyKeyRefused ==
    [][(last'.op \in {"connect", "connectRefused"} /\ apiKey = "")
        => /\ nConnect' = nConnect
           /\ client' = client
           /\ ~isConnected'
           /\ ui' = ui
           /\ last'.logs = <<"Please input API Key">>]_vars
\* A connect refused for its empty key after an earlier session of the run had
\* called client.connect.
C7_Witness ==
    /\ last.op = "connectRefused"
    /\ apiKey = ""
    /\ nConnect > 0

\* C8: after client.connect rejects, isConnected is false, the button reads
\* Connect and the five controls are disabled.
C8_RejectLeavesNotConnected ==
    last.op = "connectRejected" =>
        /\ ~isConnected
        /\ ui.connectText = "Connect"
        /\ ui.messageInput /\ ui.sendButton /\ ui.micButton
        /\ ui.cameraButton /\ ui.screenButton
\* A connect rejected while the transport holds an open session.
C8_Witness ==
    /\ last.op = "connectRejected"
    /\ client.open

\* C9: a handler step notifies the user once for each error that reached it.
ErrorLogs == {"Error", "Connection error", "Server error", "Error processing audio"}
C9_OneNotificationPerError ==
    Cardinality({i \in 1..Len(last.logs) : last.logs[i] \in ErrorLogs}) = last.errs

\* C10: the microphone callback sends its chunk with interrupt: true exactly
\* when isUsingTool is set, and without the field otherwise; the frames of the
\* camera and the screen never carry the field.
Interrupts(chunk) == "interrupt" \in DOMAIN chunk /\ chunk.interrupt
C10_InterruptIffTool ==
    /\ last.op = "micChunk" =>
          /\ Len(last.sent) = 1
          /\ Interrupts(last.sent[1]) <=> isUsingTool
          /\ ~isUsingTool => "interrupt" \notin DOMAIN last.sent[1]
    /\ last.op \in {"cameraChunk", "screenChunk"} =>
          \A i \in 1..Len(last.sent) : "interrupt" \notin DOMAIN last.sent[i]
\* A microphone chunk sent with interrupt: true while a tool is in use.
C10_Witness ==
    /\ last.op = "micChunk"
    /\ isUsingTool
    /\ Interrupts(last.sent[1])

ChunkOps == {"micChunk", "cameraChunk", "screenChunk"}

\* C11: a producer callback passes a chunk to client.sendRealtimeInput only
\* while isConnected is true.
C11_NoSendWhileDisconnected ==
    (last.op \in ChunkOps /\ last.sent # <<>>) => isConnected

\* C12: a toggle handler that resumes after disconnectFromWebsocket ran during
\* its suspension does not mark its producer active.
C12_DisconnectAbandonsStarts ==
    [][~isConnected =>
          /\ last'.op = "micStarted" => ~isRecording'
          /\ last'.op = "cameraStarted" => ~isVideoActive'
          /\ last'.op = "screenStarted" => ~isScreenSharing']_vars

\* The characters of the texts of parts i..Len(parts), in array order.
RECURSIVE TextFrom(_, _)
TextFrom(parts, i) ==
    IF i > Len(parts) THEN <<>>
    ELSE LET t == parts[i].text
         IN  [k \in 1..(Len(t) + Len(TextFrom(parts, i + 1))) |->
                 IF k <= Len(t) THEN t[k] ELSE TextFrom(parts, i + 1)[k - Len(t)]]

\* C13: the content handler notifies once, with the texts of all parts in
\* array order, when that text is not empty, and not at all when it is empty;
\* the parts "A", "B" give the one notification "AB".
C13_TextConcatenated ==
    last.op = "content" =>
        /\ last.logs = (IF TextFrom(last.parts, 1) = <<>> THEN <<>>
                        ELSE <<TextFrom(last.parts, 1)>>)
        /\ last.parts = <<TextPart(<<"A">>), TextPart(<<"B">>)>>
              => last.logs = << <<"A", "B">> >>
\* A content event of three parts, the middle one without text, surfaced as
\* the one notification "AB".
C13_Witness ==
    /\ last.op = "content"
    /\ last.parts = <<TextPart(<<"A">>), FunctionCallPart, TextPart(<<"B">>)>>
    /\ last.logs = << <<"A", "B">> >>

\* C14: a producer callback made while connected passes exactly one chunk to
\* client.sendRealtimeInput, the chunk it was given, inside the callback: the
\* chunks reach the transport as the callbacks were made, none dropped,
\* duplicated or reordered.
C14_OneSendPerCallback ==
    (last.op \in ChunkOps /\ isConnected) =>
        /\ Len(last.sent) = 1
        /\ last.sent[1].data = last.chunk
\* A camera frame with the second payload passed on while connected.
C14_Witness ==
    /\ last.op = "cameraChunk"
    /\ isConnected
    /\ last.chunk = "c2"
    /\ Len(last.sent) = 1
    /\ last.sent[1].data = "c2"

\* C15: the handlers of the error event and of a message carrying an error
\* leave isConnected, isUsingTool, the producer flags and references and the
\* sink's queue as they found them.
C15_ErrorLeavesSession ==
    [][last'.op \in {"error", "message"} =>
          UNCHANGED <<isConnected, isUsingTool, isRecording, audioRecorder, isVideoActive,
                      videoManager, isScreenSharing, screenRecorder, audioStreamer,
                      sinkQueue>>]_vars
\* An error event handled while connected, with a tool in use, the microphone
\* recording and the camera active.
C15_Witness ==
    /\ last.op = "error"
    /\ isConnected
    /\ isUsingTool
    /\ isRecording
    /\ isVideoActive

\* C16: when a start attempt of a producer fails, isConnected and isUsingTool
\* stay as they were, the flag of the producer's kind is false, and the object
\* the attempt created does not capture.
C16_FailedStartLeavesNoProducer ==
    [][\A s \in StartIds :
          (startH[s].pc # "none" /\ startH'[s] = NoStart
             /\ last'.op \in {"micFailed", "cameraFailed", "screenFailed"})
          => /\ UNCHANGED <<isConnected, isUsingTool>>
             /\ last'.op = "micFailed" => ~isRecording'
             /\ last'.op = "cameraFailed" => ~isVideoActive'
             /\ last'.op = "screenFailed" => ~isScreenSharing'
             /\ startH[s].obj # Null => objSt'[startH[s].obj] # "capturing"]_vars

\* C17: a payload handed to addPCM16 was received after the sink was last
\* stopped by the interrupted handler or by disconnectFromWebsocket.
C17_NoStaleAudio ==
    [][addLog' # addLog => addLog'[Len(addLog')] > stopMark]_vars

\* C18: after the close handler isConnected is false.
C18_CloseLeavesNotConnected ==
    last.op = "close" => ~isConnected

\* C19: a control is enabled only while isConnected is true, and the connect
\* button reads Disconnect exactly while isConnected is true.
C19_ControlsFollowConnection ==
    /\ (~ui.messageInput \/ ~ui.sendButton \/ ~ui.micButton \/ ~ui.cameraButton
          \/ ~ui.screenButton) => isConnected
    /\ ui.connectText = "Disconnect" <=> isConnected

\* C20: when a connect succeeds from the not-connected state, the new session
\* begins with isUsingTool false.
C20_FlagNotCarriedOver ==
    [][(~isConnected /\ isConnected') => ~isUsingTool']_vars

\* No toggle handler is suspended in a start.
NoStartInFlight == \A s \in StartIds : startH[s].pc = "none"

\* C21: while no producer start is in flight, isVideoActive is true exactly
\* when videoManager is set, isScreenSharing is true only when screenRecorder
\* is set, and isRecording is true only when audioRecorder is set.
C21_FlagsAgreeWithReferences ==
    NoStartInFlight =>
        /\ isVideoActive <=> videoManager # Null
        /\ isScreenSharing => screenRecorder # Null
        /\ isRecording => audioRecorder # Null

\* The text t without the whitespace before its first and after its last
\* character that is not whitespace.
Trimmed(t) ==
    LET inked == {i \in 1..Len(t) : t[i] # " "}
    IN  IF inked = {} THEN <<>>
        ELSE SubSeq(t, CHOOSE i \in inked : \A j \in inked : i <= j,
                       CHOOSE i \in inked : \A j \in inked : j <= i)

SendOps == {"sendClick", "sendKey"}

\* C22: handleSendMessage run on an input whose trimmed text is not empty
\* passes that text once to client.send, logs it once and clears the input;
\* run on an input whose trimmed text is empty it sends and logs nothing and
\* leaves everything as it was; a send right after a send sends nothing.
C22_SendsOnce ==
    [][last'.op \in SendOps =>
          /\ last'.input = messageText
          /\ IF Trimmed(messageText) # <<>>
             THEN /\ last'.msgs = <<[text |-> Trimmed(messageText)]>>
                  /\ last'.logs = <<Trimmed(messageText)>>
                  /\ messageText' = <<>>
             ELSE /\ last'.msgs = <<>>
                  /\ last'.logs = <<>>
                  /\ UNCHANGED <<messageText, msgFrame>>
          /\ last.op \in SendOps => last'.msgs = <<>>]_vars
\* A send of the input " a " as the message "a", which cleared the input.
C22_Witness ==
    /\ last.op = "sendClick"
    /\ last.input = <<" ", "a", " ">>
    /\ last.msgs = <<[text |-> <<"a">>]>>
    /\ last.logs = << <<"a">> >>
    /\ messageText = <<>>

====
